---- MODULE Spec2Model ----
(***************************************************************************)
(* Model of the Listy data store, src/storage/data_manager.py              *)
(* (class DataManager): two list collections (todo, shopping), the learned *)
(* suggestion list and the client storage they are written through to.     *)
(*                                                                         *)
(* Strings that the code inspects character by character (task names and   *)
(* suggestions: strip(), lower(), len(), sort order) are sequences of      *)
(* one-character strings.  List ids and list names are only compared for   *)
(* equality and are plain strings.  A Python dict is a sequence of entries *)
(* with distinct ids, in insertion order.  None is <<>>, any other         *)
(* returned value v is <<v>>.                                              *)
(***************************************************************************)
EXTENDS Integers, Sequences, FiniteSets, TLC

VARIABLES todo_data, shopping_data, user_suggestions_data, client_storage,
          writes, last, raised, failing

vars == <<todo_data, shopping_data, user_suggestions_data, client_storage,
          writes, last, raised, failing>>

(***************************************************************************)
(* Bounds of the model and the inputs the operations are called with.      *)
(***************************************************************************)
MaxLists == 3

MaxItems == 2

Modes == {"todo", "shopping"}

NewIds == {"1a2b3c4d"}

ListIds == {"default"} \cup NewIds

ListNames == {"Groceries"}

\* task names of the whole-store specification: one name in two letter
\* cases, too short to be learned as a suggestion
ListTaskNames == { <<"a">>, <<"A">> }

\* task names of the specification of all operations: one name, long
\* enough to be learned as a suggestion
StoreTaskNames == { <<"a", "b">> }

\* task names of the item specification
TaskNames == { <<>>, <<" ">>, <<" ", "a", "b">>, <<"A", "B">>, <<"c", "d">> }

Priorities == {"medium", "urgent"}

\* the domain the operations are called on while set calls can raise: the
\* one whose add_task also learns suggestions
FailingModes == {"shopping"}

\* the set call of an operation that raises: its first or its second
FailingWrites == {1, 2}

None == <<>>

Some(v) == <<v>>

\* what the client storage can hold under the two data keys when the
\* program starts: nothing, a record whose current_list_id is no key of its
\* lists, and a record with two lists whose current list holds a name twice
StoredItem(name, is_completed) ==
  [name |-> name, priority |-> "medium", is_completed |-> is_completed]

StoredDangling ==
  [current_list_id |-> "1a2b3c4d",
   lists |-> << [id |-> "default", name |-> "Allgemein",
                 items |-> << StoredItem(<<"a">>, FALSE) >>] >>]

StoredRepeated ==
  [current_list_id |-> "default",
   lists |-> << [id |-> "default", name |-> "Allgemein",
                 items |-> << StoredItem(<<"a">>, TRUE),
                              StoredItem(<<"A">>, FALSE),
                              StoredItem(<<"a">>, TRUE) >>],
                [id |-> "1a2b3c4d", name |-> "Groceries",
                 items |-> << StoredItem(<<"a">>, TRUE) >>] >>]

StoredData == {None, Some(StoredDangling), Some(StoredRepeated)}

\* records of the older flat shape, without "lists": one with a "tasks"
\* array and nothing else, one with settings and no "tasks"
StoredFlat ==
  [tasks |-> << StoredItem(<<"a">>, FALSE), StoredItem(<<"A">>, TRUE) >>]

StoredFlatSettings ==
  [settings |-> [language |-> "de", mode |-> "shopping", theme_mode |-> "dark"]]

\* records of the multi-list shape whose default list carries another name:
\* one a user gave it, and one of the localized default names
StoredRenamed ==
  [current_list_id |-> "default",
   lists |-> << [id |-> "default", name |-> "Groceries", items |-> <<>>] >>]

StoredLocalized ==
  [current_list_id |-> "default",
   lists |-> << [id |-> "default", name |-> "Shopping List",
                 items |-> << StoredItem(<<"b", "a">>, FALSE) >>] >>]

\* what the client storage holds under a data key when the program starts
StartData ==
  {None, Some(StoredFlat), Some(StoredFlatSettings), Some(StoredRenamed),
   Some(StoredLocalized)}

\* the legacy file of a domain: missing, or holding a flat record
StartFiles == {None, Some(StoredFlat)}

\* what the client storage holds under the suggestions key: nothing, a
\* learned name, or a learned name that the static vocabulary holds in
\* another letter case
StartSuggestions == {None, Some(<< <<"a", "b">> >>), Some(<< <<"C", "D">> >>)}

\* arguments of learn_suggestion
LearnNames ==
  { <<>>, <<"a">>, <<"a", "b">>, <<"A", "B">>, <<"b", "a">>, <<"c", "d">> }

\* task names of the suggestion specification
SuggestTaskNames ==
  { <<" ">>, <<" ", "a", "b">>, <<"c", "d">>, <<"B", "A">> }

\* what the client storage holds under the shopping key when the suggestion
\* specification starts: nothing, or a list with an item that is not learned
SuggestData == {None, Some(StoredLocalized)}

\* arguments of update_setting
SettingKeys == {"mode", "ai_provider"}

SettingValues == {"shopping", "gemini"}
\* the domain the operations are called on after a start on stored records
LoadedModes == {"todo"}

(***************************************************************************)
(* Python str methods on the characters the inputs use.                    *)
(***************************************************************************)
Ord(c) ==
  CASE c = " " -> 32
    [] c = "A" -> 65
    [] c = "B" -> 66
    [] c = "C" -> 67
    [] c = "D" -> 68
    [] c = "a" -> 97
    [] c = "b" -> 98
    [] c = "c" -> 99
    [] c = "d" -> 100

LowerChar(c) ==
  CASE c = "A" -> "a"
    [] c = "B" -> "b"
    [] c = "C" -> "c"
    [] c = "D" -> "d"
    [] OTHER -> c

lower(s) == [i \in 1..Len(s) |-> LowerChar(s[i])]

IsSpace(c) == c = " "

\* a name taken as typed
strip_Untrimmed(s) == s

RECURSIVE lstrip(_)
lstrip(s) ==
  IF s # <<>> /\ IsSpace(Head(s)) THEN lstrip(Tail(s)) ELSE s

RECURSIVE rstrip(_)
rstrip(s) ==
  IF s # <<>> /\ IsSpace(s[Len(s)]) THEN rstrip(SubSeq(s, 1, Len(s) - 1))
  ELSE s

strip(s) == rstrip(lstrip(s))

\* s < t in Python's ordering of str (by code point, a prefix first)
RECURSIVE StrLess(_, _)
StrLess(s, t) ==
  IF t = <<>> THEN FALSE
  ELSE IF s = <<>> THEN TRUE
  ELSE IF Ord(Head(s)) # Ord(Head(t)) THEN Ord(Head(s)) < Ord(Head(t))
  ELSE StrLess(Tail(s), Tail(t))

RECURSIVE InsertSorted(_, _)
InsertSorted(x, sq) ==
  IF sq = <<>> THEN <<x>>
  ELSE IF StrLess(x, Head(sq)) THEN <<x>> \o sq
  ELSE <<Head(sq)>> \o InsertSorted(x, Tail(sq))

\* list.sort() / sorted() on a list of str (stable, ascending)
RECURSIVE sorted(_)
sorted(sq) ==
  IF sq = <<>> THEN <<>>
  ELSE InsertSorted(sq[Len(sq)], sorted(SubSeq(sq, 1, Len(sq) - 1)))

Range(sq) == {sq[i] : i \in 1..Len(sq)}

RECURSIVE SetToSeq(_)
SetToSeq(S) ==
  IF S = {} THEN <<>>
  ELSE LET x == CHOOSE y \in S : TRUE IN <<x>> \o SetToSeq(S \ {x})

(***************************************************************************)
(* dict operations on data["lists"]: a sequence of [id, name, items]       *)
(***************************************************************************)
Keys(lists) == {lists[i].id : i \in 1..Len(lists)}

IndexOf(lists, id) == CHOOSE i \in 1..Len(lists) : lists[i].id = id

Get(lists, id) == lists[IndexOf(lists, id)]

\* lists[id] = {"name": name, "items": items}: an existing key keeps its
\* position, a new key is appended
DictSet(lists, id, name, items) ==
  IF id \in Keys(lists)
  THEN [lists EXCEPT ![IndexOf(lists, id)] =
          [id |-> id, name |-> name, items |-> items]]
  ELSE Append(lists, [id |-> id, name |-> name, items |-> items])

\* the first entry is dropped, whichever id was asked for
DictDel_First(lists, id) == Tail(lists)

\* del lists[id]
DictDel(lists, id) ==
  [i \in 1..(Len(lists) - 1) |->
     IF i < IndexOf(lists, id) THEN lists[i] ELSE lists[i + 1]]

\* the items replace those of every list of the domain
SetItems_EveryList(data, id, items) ==
  [data EXCEPT !.lists = [i \in 1..Len(data.lists) |->
                            [data.lists[i] EXCEPT !.items = items]]]

SetItems(data, id, items) ==
  [data EXCEPT !.lists[IndexOf(data.lists, id)].items = items]

(***************************************************************************)
(* Module constants                                                        *)
(***************************************************************************)
\* utils/suggestions.py, the static vocabulary
SUGGESTIONS == << <<"C", "d">> >>

DEFAULT_SETTINGS ==
  [language |-> "en", mode |-> "todo", theme_mode |-> "dark"]

DEFAULT_TODO_DATA ==
  [settings |-> DEFAULT_SETTINGS,
   current_list_id |-> "default",
   lists |-> << [id |-> "default", name |-> "Allgemein", items |-> <<>>] >>]

DEFAULT_SHOPPING_DATA ==
  [current_list_id |-> "default",
   lists |-> << [id |-> "default", name |-> "Einkaufsliste", items |-> <<>>] >>]

\* the localized default names __init__ replaces (the two non-ASCII entries of
\* the source's list are not reachable from the defaults and are left out)
LegacyShoppingNames == {"Einkaufsliste", "Shopping List"}

TODO_KEY == "listy.todo_data"

SHOPPING_KEY == "listy.shopping_data"

SUGGESTIONS_KEY == "listy.user_suggestions"

(***************************************************************************)
(* __init__ on empty client storage with no legacy files                   *)
(***************************************************************************)
NormalizeShoppingName(data) ==
  IF "default" \in Keys(data.lists)
     /\ Get(data.lists, "default").name \in LegacyShoppingNames
  THEN [data EXCEPT !.lists[IndexOf(data.lists, "default")].name = "Allgemein"]
  ELSE data

NormalizeTodoName(data) ==
  IF "default" \in Keys(data.lists)
     /\ Get(data.lists, "default").name # "Allgemein"
  THEN [data EXCEPT !.lists[IndexOf(data.lists, "default")].name = "Allgemein"]
  ELSE data

Init ==
  /\ todo_data = NormalizeTodoName(DEFAULT_TODO_DATA)
  /\ shopping_data = NormalizeShoppingName(DEFAULT_SHOPPING_DATA)
  /\ user_suggestions_data = <<>>
  /\ client_storage = [todo |-> NormalizeTodoName(DEFAULT_TODO_DATA),
                       shopping |-> NormalizeShoppingName(DEFAULT_SHOPPING_DATA),
                       suggestions |-> <<>>]
  /\ writes = <<SUGGESTIONS_KEY, TODO_KEY, SHOPPING_KEY, SHOPPING_KEY>>
  /\ last = [op |-> "__init__"]
  /\ raised = None
  /\ failing = 0

(***************************************************************************)
(* __init__ on client storage that holds records                           *)
(***************************************************************************)
\* client_storage.get(key), the default when it is None
Loaded(stored, default) == IF stored = None THEN default ELSE stored[1]

\* the client_storage.set calls of __init__, in call order
InitWrites(todo, shopping) ==
  <<SUGGESTIONS_KEY>>
    \o (IF todo = None THEN <<TODO_KEY>> ELSE <<>>)
    \o (IF shopping = None THEN <<SHOPPING_KEY>> ELSE <<>>)
    \o (IF NormalizeShoppingName(Loaded(shopping, DEFAULT_SHOPPING_DATA))
             # Loaded(shopping, DEFAULT_SHOPPING_DATA)
        THEN <<SHOPPING_KEY>> ELSE <<>>)
    \o (IF NormalizeTodoName(Loaded(todo, DEFAULT_TODO_DATA))
             # Loaded(todo, DEFAULT_TODO_DATA)
        THEN <<TODO_KEY>> ELSE <<>>)

InitLoaded ==
  \E todo \in StoredData, shopping \in StoredData :
     /\ todo_data = NormalizeTodoName(Loaded(todo, DEFAULT_TODO_DATA))
     /\ shopping_data =
          NormalizeShoppingName(Loaded(shopping, DEFAULT_SHOPPING_DATA))
     /\ user_suggestions_data = <<>>
     /\ client_storage = [todo |-> todo_data, shopping |-> shopping_data,
                          suggestions |-> <<>>]
     /\ writes = InitWrites(todo, shopping)
     /\ last = [op |-> "__init__"]
     /\ raised = None
     /\ failing = 0

(***************************************************************************)
(* __init__ step by step.  A stage is [data, stored, saved]: the in-memory *)
(* collection, the record the client storage holds under the domain's key  *)
(* and whether the stage called save_todo / save_shopping.                 *)
(***************************************************************************)
\* load from the client storage, else from the legacy file, else the default
ImportStage(stored, file, default) ==
  IF stored # None
  THEN [data |-> stored[1], stored |-> stored[1], saved |-> FALSE,
        source |-> "storage"]
  ELSE IF file # None
  THEN [data |-> file[1], stored |-> file[1], saved |-> TRUE,
        source |-> "file"]
  ELSE [data |-> default, stored |-> default, saved |-> TRUE,
        source |-> "default"]

\* the migrated collection is built anew and keeps no other field
Migrate_OnlyLists(data) ==
  [current_list_id |-> "default",
   lists |-> << [id |-> "default", name |-> "Allgemein",
                 items |-> IF "tasks" \in DOMAIN data THEN data.tasks
                           ELSE <<>>] >>]

\* the collection with "lists" built from the flat "tasks"
Migrate(data) ==
  [f \in (DOMAIN data \ {"tasks"}) \cup {"current_list_id", "lists"} |->
     IF f = "current_list_id" THEN "default"
     ELSE IF f = "lists"
     THEN << [id |-> "default", name |-> "Allgemein",
              items |-> IF "tasks" \in DOMAIN data THEN data.tasks ELSE <<>>] >>
     ELSE data[f]]

\* the record is saved with "lists" added and "tasks" still in it
MigrateStage_SavedWithTasks(s) ==
  IF "lists" \in DOMAIN s.data
  THEN [s EXCEPT !.saved = FALSE]
  ELSE [s EXCEPT !.data = Migrate(s.data),
                 !.stored =
                    [f \in DOMAIN s.data \cup {"current_list_id", "lists"} |->
                       IF f \in {"current_list_id", "lists"}
                       THEN Migrate(s.data)[f] ELSE s.data[f]],
                 !.saved = TRUE]

\* the structural migration of one domain
MigrateStage(s) ==
  IF "lists" \in DOMAIN s.data
  THEN [s EXCEPT !.saved = FALSE]
  ELSE [s EXCEPT !.data = Migrate(s.data), !.stored = Migrate(s.data),
                 !.saved = TRUE]

\* the name normalization of the shopping domain
NameStageShopping(s) ==
  IF NormalizeShoppingName(s.data) # s.data
  THEN [s EXCEPT !.data = NormalizeShoppingName(s.data),
                 !.stored = NormalizeShoppingName(s.data), !.saved = TRUE]
  ELSE [s EXCEPT !.saved = FALSE]

\* the name normalization of the todo domain
NameStageTodo(s) ==
  IF NormalizeTodoName(s.data) # s.data
  THEN [s EXCEPT !.data = NormalizeTodoName(s.data),
                 !.stored = NormalizeTodoName(s.data), !.saved = TRUE]
  ELSE [s EXCEPT !.saved = FALSE]

\* the set call of a stage
SetCall(cond, key) == IF cond THEN <<key>> ELSE <<>>

\* the store __init__ builds, the records it leaves in the client storage
\* and its client_storage.set calls in call order
Started(todo, todo_file, shopping, shopping_file, suggestions) ==
  LET ti == ImportStage(todo, todo_file, DEFAULT_TODO_DATA)
      si == ImportStage(shopping, shopping_file, DEFAULT_SHOPPING_DATA)
      sm == MigrateStage(si)
      tm == MigrateStage(ti)
      sn == NameStageShopping(sm)
      tn == NameStageTodo(tm)
      learned == IF suggestions = None THEN <<>> ELSE suggestions[1]
  IN [todo_data |-> tn.data,
      shopping_data |-> sn.data,
      user_suggestions_data |-> learned,
      client_storage |-> [todo |-> tn.stored, shopping |-> sn.stored,
                          suggestions |-> learned],
      writes |-> SetCall(suggestions = None, SUGGESTIONS_KEY)
                   \o SetCall(ti.source = "file", TODO_KEY)
                   \o SetCall(si.source = "file", SHOPPING_KEY)
                   \o SetCall(ti.source = "default", TODO_KEY)
                   \o SetCall(si.source = "default", SHOPPING_KEY)
                   \o SetCall(sm.saved, SHOPPING_KEY)
                   \o SetCall(tm.saved, TODO_KEY)
                   \o SetCall(sn.saved, SHOPPING_KEY)
                   \o SetCall(tn.saved, TODO_KEY)]

\* the call record of __init__ keeps what it found
StartCall(todo, todo_file, shopping, shopping_file, suggestions) ==
  [op |-> "__init__", todo |-> todo, todo_file |-> todo_file,
   shopping |-> shopping, shopping_file |-> shopping_file,
   suggestions |-> suggestions]

InitStart ==
  \E todo \in StartData, todo_file \in StartFiles, shopping \in StartData,
     shopping_file \in StartFiles, suggestions \in StartSuggestions :
     LET st == Started(todo, todo_file, shopping, shopping_file, suggestions)
     IN /\ todo_data = st.todo_data
        /\ shopping_data = st.shopping_data
        /\ user_suggestions_data = st.user_suggestions_data
        /\ client_storage = st.client_storage
        /\ writes = st.writes
        /\ last = StartCall(todo, todo_file, shopping, shopping_file,
                            suggestions)
        /\ raised = None
        /\ failing = 0

(***************************************************************************)
(* Accessors                                                               *)
(***************************************************************************)
Data(mode) == IF mode = "shopping" THEN shopping_data ELSE todo_data

KeyOf(mode) == IF mode = "shopping" THEN SHOPPING_KEY ELSE TODO_KEY

Stored(mode) ==
  IF mode = "shopping" THEN client_storage.shopping ELSE client_storage.todo

\* _get_lists: id -> name
GetLists(mode) ==
  [id \in Keys(Data(mode).lists) |-> Get(Data(mode).lists, id).name]

\* _get_current_list_id
GetCurrentListId(mode) == Data(mode).current_list_id

\* get_tasks
GetTasks(mode) ==
  IF GetCurrentListId(mode) \in Keys(Data(mode).lists)
  THEN Get(Data(mode).lists, GetCurrentListId(mode)).items
  ELSE <<>>

RECURSIVE CountItems(_)
CountItems(lists) ==
  IF lists = <<>> THEN 0
  ELSE Len(Head(lists).items) + CountItems(Tail(lists))

\* the number of lists the store holds
TotalLists == Len(todo_data.lists) + Len(shopping_data.lists)

\* the number of items the store holds
TotalItems == CountItems(todo_data.lists) + CountItems(shopping_data.lists)

\* the end of every handler.  data and suggestions are the in-memory values
\* and keys the client_storage.set calls it makes, in call order; call is
\* the call's record and exc the exception it ends with, None when it
\* returns.  failing is the number of the set call that raises, 0 when
\* none does: the handler is then left at that call by the exception of
\* client_storage.set, which save_todo, save_shopping and
\* save_user_suggestions pass on, and the sets before it have taken place
Effect(mode, data, suggestions, keys, call, exc) ==
  LET fails == failing \in 1..Len(keys)
      done == IF fails THEN SubSeq(keys, 1, failing - 1) ELSE keys
  IN /\ todo_data' = IF mode = "shopping" THEN todo_data ELSE data
     /\ shopping_data' = IF mode = "shopping" THEN data ELSE shopping_data
     /\ user_suggestions_data' = suggestions
     /\ client_storage' =
          [todo |-> IF TODO_KEY \in Range(done)
                    THEN todo_data' ELSE client_storage.todo,
           shopping |-> IF SHOPPING_KEY \in Range(done)
                        THEN shopping_data' ELSE client_storage.shopping,
           suggestions |-> IF SUGGESTIONS_KEY \in Range(done)
                           THEN suggestions ELSE client_storage.suggestions]
     /\ writes' = done
     /\ last' = IF fails THEN [call EXCEPT !.ret = None] ELSE call
     /\ raised' = IF fails THEN <<"StorageError", keys[failing]>> ELSE exc
     /\ failing' = 0

\* the handler returned
Finish(mode, data, suggestions, keys, call) ==
  Effect(mode, data, suggestions, keys, call, None)

\* the handler was left by an exception no code of the class catches
Raise(mode, data, suggestions, keys, call, exc) ==
  Effect(mode, data, suggestions, keys, call, Some(exc))

(***************************************************************************)
(* List management                                                         *)
(***************************************************************************)
\* the list is inserted and saved, the current list is left as it was
_create_list_NoSwitch(name, mode, new_id) ==
  LET data == Data(mode)
  IN /\ new_id \in Keys(data.lists) \/ TotalLists < MaxLists
     /\ Finish(mode,
               [data EXCEPT !.lists = DictSet(data.lists, new_id, name, <<>>)],
               user_suggestions_data, <<KeyOf(mode)>>,
               [op |-> "create_list", mode |-> mode, ret |-> Some(new_id)])

\* new_id is str(uuid.uuid4())[:8]: eight hex digits, any value
_create_list(name, mode, new_id) ==
  LET data == Data(mode)
      lists1 == DictSet(data.lists, new_id, name, <<>>)
      \* _set_current_list_id(new_id, mode): new_id is a key by now
      data1 == [data EXCEPT !.current_list_id = new_id, !.lists = lists1]
  IN /\ new_id \in Keys(data.lists) \/ TotalLists < MaxLists
     /\ Finish(mode, data1, user_suggestions_data,
               <<KeyOf(mode), KeyOf(mode)>>,
               [op |-> "create_list", mode |-> mode, ret |-> Some(new_id)])

\* the pointer is set without looking the id up
_set_current_list_id_Unchecked(list_id, mode) ==
  Finish(mode, [Data(mode) EXCEPT !.current_list_id = list_id],
         user_suggestions_data, <<KeyOf(mode)>>,
         [op |-> "set_current_list_id", mode |-> mode, list_id |-> list_id,
          ret |-> None])

_set_current_list_id(list_id, mode) ==
  LET data == Data(mode)
      call == [op |-> "set_current_list_id", mode |-> mode,
               list_id |-> list_id, ret |-> None]
  IN IF list_id \in Keys(data.lists)
     THEN Finish(mode, [data EXCEPT !.current_list_id = list_id],
                 user_suggestions_data, <<KeyOf(mode)>>, call)
     ELSE Finish(mode, data, user_suggestions_data, <<>>, call)

\* the list is renamed in memory and the domain is not saved
_rename_list_Unsaved(list_id, new_name, mode) ==
  LET data == Data(mode)
      call == [op |-> "rename_list", mode |-> mode, list_id |-> list_id,
               ret |-> None]
  IN IF list_id \in Keys(data.lists)
     THEN Finish(mode,
                 [data EXCEPT
                    !.lists[IndexOf(data.lists, list_id)].name = new_name],
                 user_suggestions_data, <<>>, call)
     ELSE Finish(mode, data, user_suggestions_data, <<>>, call)

_rename_list(list_id, new_name, mode) ==
  LET data == Data(mode)
      call == [op |-> "rename_list", mode |-> mode, list_id |-> list_id,
               ret |-> None]
  IN IF list_id \in Keys(data.lists)
     THEN Finish(mode,
                 [data EXCEPT
                    !.lists[IndexOf(data.lists, list_id)].name = new_name],
                 user_suggestions_data, <<KeyOf(mode)>>, call)
     ELSE Finish(mode, data, user_suggestions_data, <<>>, call)

\* a guard that protects no list
IsDefaultList_Unprotected(list_id) == FALSE

\* the guard of _delete_list for the default list
IsDefaultList(list_id) == list_id = "default"

\* the current list id is left as it was
CurrentAfterDelete_Stale(current_list_id, list_id, lists1) == current_list_id

\* the current list id after list_id was deleted: when it was the current
\* list, next(iter(data["lists"])), the first remaining key
CurrentAfterDelete(current_list_id, list_id, lists1) ==
  IF current_list_id = list_id THEN lists1[1].id ELSE current_list_id

\* the call record keeps the list that was current when the call was made
_delete_list(list_id, mode) ==
  LET data == Data(mode)
      call(r) == [op |-> "delete_list", mode |-> mode, list_id |-> list_id,
                  current |-> data.current_list_id, ret |-> Some(r)]
  IN IF IsDefaultList(list_id)
     THEN Finish(mode, data, user_suggestions_data, <<>>, call(FALSE))
     ELSE IF Len(data.lists) <= 1
     THEN Finish(mode, data, user_suggestions_data, <<>>, call(FALSE))
     ELSE IF list_id \in Keys(data.lists)
     THEN LET lists1 == DictDel(data.lists, list_id)
              data1 == [data EXCEPT
                          !.current_list_id =
                             CurrentAfterDelete(data.current_list_id, list_id,
                                                lists1),
                          !.lists = lists1]
          IN Finish(mode, data1, user_suggestions_data, <<KeyOf(mode)>>,
                    call(TRUE))
     ELSE Finish(mode, data, user_suggestions_data, <<>>, call(FALSE))

(***************************************************************************)
(* Suggestions                                                             *)
(***************************************************************************)
\* the name is appended without looking it up in the learned list
learn_suggestion_Relearn(item_name, learned) ==
  IF item_name = <<>> \/ Len(item_name) < 2 THEN learned
  ELSE IF \E i \in 1..Len(SUGGESTIONS) :
            lower(SUGGESTIONS[i]) = lower(item_name) THEN learned
  ELSE sorted(Append(learned, item_name))

\* a new name is appended and the list is left in the order of learning
learn_suggestion_Unsorted(item_name, learned) ==
  IF item_name = <<>> \/ Len(item_name) < 2 THEN learned
  ELSE IF \E i \in 1..Len(SUGGESTIONS) :
            lower(SUGGESTIONS[i]) = lower(item_name) THEN learned
  ELSE IF \E i \in 1..Len(learned) :
            lower(learned[i]) = lower(item_name) THEN learned
  ELSE Append(learned, item_name)

\* the learned list after learn_suggestion(item_name)
learn_suggestion(item_name, learned) ==
  IF item_name = <<>> \/ Len(item_name) < 2 THEN learned
  ELSE IF \E i \in 1..Len(SUGGESTIONS) :
            lower(SUGGESTIONS[i]) = lower(item_name) THEN learned
  ELSE IF \E i \in 1..Len(learned) :
            lower(learned[i]) = lower(item_name) THEN learned
  ELSE sorted(Append(learned, item_name))

\* sorted(list(set(SUGGESTIONS + self.user_suggestions_data)))
get_all_suggestions(learned) ==
  sorted(SetToSeq(Range(SUGGESTIONS \o learned)))

\* the loop of add_task over all_suggestions: the first suggestion equal to
\* clean_name ignoring case replaces it
Normalize(clean_name, learned) ==
  LET all == get_all_suggestions(learned)
      hits == {i \in 1..Len(all) : lower(all[i]) = lower(clean_name)}
  IN IF hits = {} THEN clean_name
     ELSE all[CHOOSE i \in hits : \A j \in hits : i <= j]

\* names are compared as they are written
IsDuplicate_CaseSensitive(current_items, clean_name) ==
  \E i \in 1..Len(current_items) : current_items[i].name = clean_name

\* the duplicate check of add_task
IsDuplicate(current_items, clean_name) ==
  \E i \in 1..Len(current_items) :
     lower(current_items[i].name) = lower(clean_name)

\* the item is built with the default priority
NewTask_DefaultPriority(clean_name, priority, is_completed) ==
  [name |-> clean_name, priority |-> "medium", is_completed |-> is_completed]

\* new_task of add_task
NewTask(clean_name, priority, is_completed) ==
  [name |-> clean_name, priority |-> priority, is_completed |-> is_completed]

(***************************************************************************)
(* Tasks                                                                   *)
(***************************************************************************)
\* the name is learned after the duplicate check: a rejected name is not
add_task_LearnAfterCheck(task_name, priority, is_completed, mode) ==
  LET data == Data(mode)
      call(r) == [op |-> "add_task", mode |-> mode, task_name |-> task_name,
                  ret |-> r]
      stripped == strip(task_name)
      clean_name == Normalize(stripped, user_suggestions_data)
      learned == IF mode = "shopping"
                 THEN learn_suggestion(clean_name, user_suggestions_data)
                 ELSE user_suggestions_data
      learnt == IF learned # user_suggestions_data
                THEN <<SUGGESTIONS_KEY>> ELSE <<>>
      current_id == data.current_list_id
      current_items == Get(data.lists, current_id).items
      new_task == NewTask(clean_name, priority, is_completed)
  IN IF stripped = <<>>
     THEN Finish(mode, data, user_suggestions_data, <<>>, call(None))
     ELSE IF current_id \notin Keys(data.lists)
     THEN Raise(mode, data, user_suggestions_data, <<>>, call(None),
                "KeyError")
     ELSE IF IsDuplicate(current_items, clean_name)
     THEN Finish(mode, data, user_suggestions_data, <<>>, call(None))
     ELSE /\ TotalItems < MaxItems
          /\ IF failing \in 1..Len(learnt)
             THEN Finish(mode, data, learned, learnt, call(None))
             ELSE Finish(mode, SetItems(data, current_id,
                                        Append(current_items, new_task)),
                         learned, learnt \o <<KeyOf(mode)>>,
                         call(Some(new_task)))

add_task(task_name, priority, is_completed, mode) ==
  LET data == Data(mode)
      call(r) == [op |-> "add_task", mode |-> mode, task_name |-> task_name,
                  ret |-> r]
      stripped == strip(task_name)
      clean_name == Normalize(stripped, user_suggestions_data)
      learned == IF mode = "shopping"
                 THEN learn_suggestion(clean_name, user_suggestions_data)
                 ELSE user_suggestions_data
      learnt == IF learned # user_suggestions_data
                THEN <<SUGGESTIONS_KEY>> ELSE <<>>
      current_id == data.current_list_id
      current_items == Get(data.lists, current_id).items
      new_task == NewTask(clean_name, priority, is_completed)
  IN IF stripped = <<>>
     THEN Finish(mode, data, user_suggestions_data, <<>>, call(None))
     \* ["lists"][current_id] of an id that is no key
     ELSE IF current_id \notin Keys(data.lists)
     THEN Raise(mode, data, learned, learnt, call(None), "KeyError")
     ELSE IF IsDuplicate(current_items, clean_name)
     THEN Finish(mode, data, learned, learnt, call(None))
     ELSE /\ TotalItems < MaxItems
          /\ IF failing \in 1..Len(learnt)
             \* save_user_suggestions raises inside learn_suggestion
             THEN Finish(mode, data, learned, learnt, call(None))
             ELSE Finish(mode, SetItems(data, current_id,
                                        Append(current_items, new_task)),
                         learned, learnt \o <<KeyOf(mode)>>,
                         call(Some(new_task)))

\* the flag is set on every item with that name: the loop has no break
update_task_status_AllMatches(task_name, is_completed, mode) ==
  LET data == Data(mode)
      current_id == data.current_list_id
      tasks == Get(data.lists, current_id).items
      tasks1 == [i \in 1..Len(tasks) |->
                   IF tasks[i].name = task_name
                   THEN [tasks[i] EXCEPT !.is_completed = is_completed]
                   ELSE tasks[i]]
      call == [op |-> "update_task_status", mode |-> mode, ret |-> None]
  IN IF current_id \notin Keys(data.lists)
     THEN Raise(mode, data, user_suggestions_data, <<>>, call, "KeyError")
     ELSE Finish(mode, SetItems(data, current_id, tasks1),
                 user_suggestions_data, <<KeyOf(mode)>>, call)

update_task_status(task_name, is_completed, mode) ==
  LET data == Data(mode)
      current_id == data.current_list_id
      tasks == Get(data.lists, current_id).items
      hits == {i \in 1..Len(tasks) : tasks[i].name = task_name}
      tasks1 == IF hits = {} THEN tasks
                ELSE [tasks EXCEPT ![CHOOSE i \in hits : \A j \in hits : i <= j]
                                       .is_completed = is_completed]
      call == [op |-> "update_task_status", mode |-> mode, ret |-> None]
  IN IF current_id \notin Keys(data.lists)
     THEN Raise(mode, data, user_suggestions_data, <<>>, call, "KeyError")
     ELSE Finish(mode, SetItems(data, current_id, tasks1),
                 user_suggestions_data, <<KeyOf(mode)>>, call)

\* names are compared ignoring the letter case
delete_task_IgnoreCase(task_name, mode) ==
  LET data == Data(mode)
      current_id == data.current_list_id
      old_items == Get(data.lists, current_id).items
      Differs(t) == lower(t.name) # lower(task_name)
      call == [op |-> "delete_task", mode |-> mode, ret |-> None]
  IN IF current_id \notin Keys(data.lists)
     THEN Raise(mode, data, user_suggestions_data, <<>>, call, "KeyError")
     ELSE Finish(mode,
                 SetItems(data, current_id, SelectSeq(old_items, Differs)),
                 user_suggestions_data, <<KeyOf(mode)>>, call)

delete_task(task_name, mode) ==
  LET data == Data(mode)
      current_id == data.current_list_id
      old_items == Get(data.lists, current_id).items
      Differs(t) == t.name # task_name
      call == [op |-> "delete_task", mode |-> mode, ret |-> None]
  IN IF current_id \notin Keys(data.lists)
     THEN Raise(mode, data, user_suggestions_data, <<>>, call, "KeyError")
     ELSE Finish(mode,
                 SetItems(data, current_id, SelectSeq(old_items, Differs)),
                 user_suggestions_data, <<KeyOf(mode)>>, call)

clear_tasks(mode) ==
  LET data == Data(mode)
      call == [op |-> "clear_tasks", mode |-> mode, ret |-> None]
  IN IF data.current_list_id \notin Keys(data.lists)
     THEN Raise(mode, data, user_suggestions_data, <<>>, call, "KeyError")
     ELSE Finish(mode, SetItems(data, data.current_list_id, <<>>),
                 user_suggestions_data, <<KeyOf(mode)>>, call)

\* the completed items are dropped from every list of the domain
clear_completed_tasks_AllLists(mode) ==
  LET data == Data(mode)
      current_id == data.current_list_id
      call == [op |-> "clear_completed_tasks", mode |-> mode, ret |-> None]
      NotCompleted(t) == ~t.is_completed
  IN IF current_id \in Keys(data.lists)
     THEN Finish(mode,
                 [data EXCEPT !.lists =
                    [k \in 1..Len(data.lists) |->
                       [data.lists[k] EXCEPT !.items =
                          SelectSeq(data.lists[k].items, NotCompleted)]]],
                 user_suggestions_data, <<KeyOf(mode)>>, call)
     ELSE Finish(mode, data, user_suggestions_data, <<>>, call)

clear_completed_tasks(mode) ==
  LET data == Data(mode)
      current_id == data.current_list_id
      call == [op |-> "clear_completed_tasks", mode |-> mode, ret |-> None]
      NotCompleted(t) == ~t.is_completed
  IN IF current_id \in Keys(data.lists)
     THEN Finish(mode,
                 SetItems(data, current_id,
                          SelectSeq(Get(data.lists, current_id).items,
                                    NotCompleted)),
                 user_suggestions_data, <<KeyOf(mode)>>, call)
     ELSE Finish(mode, data, user_suggestions_data, <<>>, call)

\* the completed items of the current shopping list are removed
clear_shopping_cart ==
  LET data == shopping_data
      current_id == data.current_list_id
      call == [op |-> "clear_shopping_cart", mode |-> "shopping", ret |-> None]
      NotCompleted(t) == ~t.is_completed
  IN IF current_id \in Keys(data.lists)
     THEN Finish("shopping",
                 SetItems(data, current_id,
                          SelectSeq(Get(data.lists, current_id).items,
                                    NotCompleted)),
                 user_suggestions_data, <<SHOPPING_KEY>>, call)
     ELSE Finish("shopping", data, user_suggestions_data, <<>>, call)

(***************************************************************************)
(* Reads                                                                   *)
(***************************************************************************)
\* a read leaves the store as it is
get_tasks(mode) ==
  /\ Finish(mode, Data(mode), user_suggestions_data, <<>>,
            [op |-> "get_tasks", mode |-> mode, ret |-> GetTasks(mode)])

\* the text is the title line and one line per item: the mark of its
\* completion flag and its name
get_list_as_text(mode) ==
  LET data == Data(mode)
      current_id == data.current_list_id
      items == Get(data.lists, current_id).items
      text == [title |-> Get(data.lists, current_id).name,
               lines |-> [i \in 1..Len(items) |->
                            [done |-> items[i].is_completed,
                             name |-> items[i].name]]]
  IN IF current_id \notin Keys(data.lists)
     THEN Raise(mode, data, user_suggestions_data, <<>>,
                [op |-> "get_list_as_text", mode |-> mode, ret |-> None],
                "KeyError")
     ELSE Finish(mode, data, user_suggestions_data, <<>>,
                 [op |-> "get_list_as_text", mode |-> mode,
                  ret |-> Some(text)])

(***************************************************************************)
(* Restart and settings                                                    *)
(***************************************************************************)
\* the program is started again on the client storage as it is; the legacy
\* files are not read, since both data keys hold a record
__init__ ==
  LET st == Started(Some(client_storage.todo), None,
                    Some(client_storage.shopping), None,
                    Some(client_storage.suggestions))
  IN /\ todo_data' = st.todo_data
     /\ shopping_data' = st.shopping_data
     /\ user_suggestions_data' = st.user_suggestions_data
     /\ client_storage' = st.client_storage
     /\ writes' = st.writes
     /\ last' = StartCall(Some(client_storage.todo), None,
                          Some(client_storage.shopping), None,
                          Some(client_storage.suggestions))
     /\ raised' = None
     /\ failing' = 0

\* self.todo_data.get("settings", DEFAULT_TODO_DATA["settings"])
GetSettings ==
  IF "settings" \in DOMAIN todo_data THEN todo_data.settings
  ELSE DEFAULT_SETTINGS

get_settings ==
  /\ Finish("todo", todo_data, user_suggestions_data, <<>>,
            [op |-> "get_settings", ret |-> Some(GetSettings)])

\* self.todo_data["settings"][key] = value, then save_todo
update_setting(key, value) ==
  LET call == [op |-> "update_setting", key |-> key, value |-> value,
               ret |-> None]
      settings == todo_data.settings
      settings1 == [k \in DOMAIN settings \cup {key} |->
                      IF k = key THEN value ELSE settings[k]]
  IN IF "settings" \notin DOMAIN todo_data
     THEN Raise("todo", todo_data, user_suggestions_data, <<>>, call,
                "KeyError")
     ELSE Finish("todo", [todo_data EXCEPT !.settings = settings1],
                 user_suggestions_data, <<TODO_KEY>>, call)

(***************************************************************************)
(* Calls of the suggestion methods                                         *)
(***************************************************************************)
\* a call of learn_suggestion(item_name)
learn(item_name) ==
  LET learned == learn_suggestion(item_name, user_suggestions_data)
  IN Finish("todo", todo_data, learned,
            IF learned # user_suggestions_data THEN <<SUGGESTIONS_KEY>>
            ELSE <<>>,
            [op |-> "learn_suggestion", item_name |-> item_name,
             ret |-> None])

\* a call of get_all_suggestions()
all_suggestions ==
  /\ Finish("todo", todo_data, user_suggestions_data, <<>>,
            [op |-> "get_all_suggestions",
             ret |-> Some(get_all_suggestions(user_suggestions_data))])

(***************************************************************************)
(* Specification                                                           *)
(***************************************************************************)
\* names update_task_status and delete_task are called with: the names
\* add_task can have stored
StoredNames(names) ==
  {strip(n) : n \in {t \in names : strip(t) # <<>>}}
    \cup {sg \in Range(SUGGESTIONS) : \E n \in names : lower(strip(n)) = lower(sg)}

ItemOps(modes, names, priorities) ==
  \/ \E m \in modes, n \in names, p \in priorities, c \in BOOLEAN :
       add_task(n, p, c, m)
  \/ \E m \in modes, n \in StoredNames(names), c \in BOOLEAN :
       update_task_status(n, c, m)
  \/ \E m \in modes, n \in StoredNames(names) : delete_task(n, m)
  \/ \E m \in modes : clear_tasks(m)
  \/ \E m \in modes : clear_completed_tasks(m)

Next ==
  \/ \E m \in Modes, n \in ListNames, id \in NewIds : _create_list(n, m, id)
  \/ \E m \in Modes, id \in ListIds : _set_current_list_id(id, m)
  \/ \E m \in Modes, id \in ListIds, n \in ListNames : _rename_list(id, n, m)
  \/ \E m \in Modes, id \in ListIds : _delete_list(id, m)
  \/ ItemOps(Modes, ListTaskNames, {"medium"})

Spec == Init /\ [][Next]_vars

NextItems == ItemOps(Modes, TaskNames, Priorities)

SpecItems == Init /\ [][NextItems]_vars

\* every operation on both domains, with a task name that is learned
NextAll ==
  \/ \E m \in Modes, n \in ListNames, id \in NewIds : _create_list(n, m, id)
  \/ \E m \in Modes, id \in ListIds : _set_current_list_id(id, m)
  \/ \E m \in Modes, id \in ListIds, n \in ListNames : _rename_list(id, n, m)
  \/ \E m \in Modes, id \in ListIds : _delete_list(id, m)
  \/ ItemOps(Modes, StoreTaskNames, {"medium"})
  \/ clear_shopping_cart

SpecAll == Init /\ [][NextAll]_vars

\* the client storage is about to refuse a write: the k-th
\* client_storage.set of the next operation raises
set_raises(k) ==
  /\ failing = 0
  /\ failing' = k
  /\ UNCHANGED <<todo_data, shopping_data, user_suggestions_data,
                 client_storage, writes, last, raised>>

\* every operation on one domain, with set calls that can raise
NextFailing ==
  \/ \E k \in FailingWrites : set_raises(k)
  \/ \E m \in FailingModes, n \in ListNames, id \in NewIds :
       _create_list(n, m, id)
  \/ \E m \in FailingModes, id \in ListIds : _set_current_list_id(id, m)
  \/ \E m \in FailingModes, id \in ListIds, n \in ListNames :
       _rename_list(id, n, m)
  \/ \E m \in FailingModes, id \in ListIds : _delete_list(id, m)
  \/ ItemOps(FailingModes, StoreTaskNames, {"medium"})

SpecFailing == Init /\ [][NextFailing]_vars

\* the store started on client storage that holds records
NextLoaded ==
  \/ \E m \in LoadedModes, id \in ListIds : _set_current_list_id(id, m)
  \/ \E m \in LoadedModes, id \in ListIds, n \in ListNames :
       _rename_list(id, n, m)
  \/ \E m \in LoadedModes, id \in ListIds : _delete_list(id, m)
  \/ \E m \in LoadedModes : get_tasks(m)
  \/ \E m \in LoadedModes : get_list_as_text(m)
  \/ ItemOps(LoadedModes, ListTaskNames, {"medium"})

SpecLoaded == InitLoaded /\ [][NextLoaded]_vars

\* the store started on any stored records and legacy files, started
\* again, and its settings
NextStart ==
  \/ __init__
  \/ get_settings
  \/ \E key \in SettingKeys, value \in SettingValues :
       update_setting(key, value)

SpecStart == InitStart /\ [][NextStart]_vars

\* a start on an empty todo key, a stored shopping record or none, and any
\* stored learned list
InitSuggest ==
  \E shopping \in SuggestData, suggestions \in StartSuggestions :
     LET st == Started(None, None, shopping, None, suggestions)
     IN /\ todo_data = st.todo_data
        /\ shopping_data = st.shopping_data
        /\ user_suggestions_data = st.user_suggestions_data
        /\ client_storage = st.client_storage
        /\ writes = st.writes
        /\ last = StartCall(None, None, shopping, None, suggestions)
        /\ raised = None
        /\ failing = 0

\* the suggestion methods and add_task on both domains
NextSuggest ==
  \/ \E n \in LearnNames : learn(n)
  \/ all_suggestions
  \/ \E m \in Modes, n \in SuggestTaskNames :
       add_task(n, "medium", FALSE, m)

SpecSuggest == InitSuggest /\ [][NextSuggest]_vars

(***************************************************************************)
(* Properties                                                              *)
(***************************************************************************)
\* C1: in every reachable state each domain's current_list_id is a key of
\* its lists, in particular after _delete_list removed the current list
C1_CurrentListExists ==
  \A m \in Modes : Data(m).current_list_id \in Keys(Data(m).lists)

\* _delete_list has just removed the list that was current
C1_Witness ==
  /\ last.op = "delete_list"
  /\ last.ret = Some(TRUE)
  /\ last.current = last.list_id
  /\ Data(last.mode).current_list_id # last.list_id

DefaultPresent == \A m \in Modes : "default" \in Keys(Data(m).lists)

\* C2: _delete_list("default") returns False and changes neither collection,
\* and every domain's lists holds the key "default" in every reachable state
C2_DefaultNeverDeleted ==
  /\ DefaultPresent
  /\ [][/\ DefaultPresent'
        /\ (last'.op = "delete_list" /\ last'.list_id = "default")
             => /\ last'.ret = Some(FALSE)
                /\ UNCHANGED <<todo_data, shopping_data, client_storage>>]_vars

\* _delete_list("default") was called in a domain that holds a second list
C2_Witness ==
  /\ last.op = "delete_list"
  /\ last.list_id = "default"
  /\ Len(Data(last.mode).lists) >= 2
  /\ last.ret = Some(FALSE)

\* C3: in every reachable state the default list of each domain is named
\* "Allgemein"
C3_DefaultNameFixed ==
  \A m \in Modes :
     "default" \in Keys(Data(m).lists)
       => Get(Data(m).lists, "default").name = "Allgemein"

NoCaseDuplicates ==
  \A m \in Modes : \A k \in 1..Len(Data(m).lists) :
     LET items == Data(m).lists[k].items
     IN \A i, j \in 1..Len(items) :
           i # j => lower(items[i].name) # lower(items[j].name)

NonBlank(name) == \E i \in 1..Len(name) : ~IsSpace(name[i])

\* C4: no list of either domain ever holds two items whose names are equal
\* ignoring case, and an add_task(N') that follows add_task(N) in the same
\* domain, N non-blank and N' equal to N ignoring case, returns None and
\* leaves exactly one item matching N in the current list
C4_NoCaseDuplicates ==
  /\ NoCaseDuplicates
  /\ [][/\ NoCaseDuplicates'
        /\ (/\ last.op = "add_task"
            /\ last'.op = "add_task"
            /\ last'.mode = last.mode
            /\ NonBlank(last.task_name)
            /\ lower(last'.task_name) = lower(last.task_name))
             => /\ last'.ret = None
                /\ Cardinality(
                     {i \in 1..Len(GetTasks(last.mode)') :
                        lower(GetTasks(last.mode)'[i].name)
                          = lower(strip(last.task_name))}) = 1]_vars

\* add_task was refused in todo mode for a name that is stored in another
\* letter case and that no suggestion corrects
C4_Witness ==
  /\ last.op = "add_task"
  /\ last.mode = "todo"
  /\ last.ret = None
  /\ user_suggestions_data = <<>>
  /\ \E i \in 1..Len(GetTasks("todo")) :
        /\ GetTasks("todo")[i].name # strip(last.task_name)
        /\ lower(GetTasks("todo")[i].name) = lower(strip(last.task_name))

\* name is the stored casing of the trimmed name t: a suggestion equal to t
\* ignoring case when there is one, t itself otherwise
IsCanonicalOf(name, t) ==
  LET matching == {sg \in Range(SUGGESTIONS) \cup Range(user_suggestions_data) :
                     lower(sg) = lower(t)}
  IN IF matching = {} THEN name = t ELSE name \in matching

\* C5: add_task of a name that is not blank and matches no item of the
\* current list ignoring case returns an item with the canonicalised trimmed
\* name, the given priority and the given completion flag, and the current
\* list becomes the previous items followed by that item
C5_AddAppends ==
  [][\A m \in Modes :
       (/\ last'.op = "add_task"
        /\ last'.mode = m
        /\ NonBlank(last'.task_name)
        /\ \A i \in 1..Len(GetTasks(m)) :
              lower(GetTasks(m)[i].name) # lower(strip(last'.task_name)))
         => \A p \in Priorities, c \in BOOLEAN :
               add_task(last'.task_name, p, c, m)
                 => /\ last'.ret # None
                    /\ IsCanonicalOf(last'.ret[1].name, strip(last'.task_name))
                    /\ last'.ret[1].priority = p
                    /\ last'.ret[1].is_completed = c
                    /\ GetTasks(m)' = Append(GetTasks(m), last'.ret[1])]_vars

\* add_task has appended a second item, under a name a suggestion corrected
C5_Witness ==
  /\ last.op = "add_task"
  /\ last.ret # None
  /\ last.ret[1].name # strip(last.task_name)
  /\ last.ret[1].priority = "urgent"
  /\ Len(GetTasks(last.mode)) = 2
  /\ GetTasks(last.mode)[2] = last.ret[1]

\* C6: _create_list(name) inserts a list with that name and no items under
\* the id it returns, the id is not "default", the domain's current_list_id
\* is the returned id and the stored record equals the collection
C6_CreateSwitches ==
  [][\A m \in Modes, n \in ListNames, id \in NewIds :
       (/\ last'.op = "create_list"
        /\ last'.mode = m
        /\ last'.ret = Some(id)
        /\ _create_list(n, m, id))
         => /\ id # "default"
            /\ id \in Keys(Data(m).lists')
            /\ Get(Data(m).lists', id) = [id |-> id, name |-> n, items |-> <<>>]
            /\ Data(m).current_list_id' = id
            /\ Stored(m)' = Data(m)']_vars

\* _create_list has returned while another list was the current one
C6_Witness ==
  /\ last.op = "create_list"
  /\ Data(last.mode).current_list_id = last.ret[1]
  /\ Len(Data(last.mode).lists) = 2
  /\ KeyOf(last.mode) \in Range(writes)

\* C7: the id _create_list returns is no key of the domain's lists when it
\* is called, every list that existed keeps its name and items and the
\* domain has one list more
C7_CreateIsFresh ==
  [][\A m \in Modes :
       (last'.op = "create_list" /\ last'.mode = m)
         => /\ last'.ret[1] \notin Keys(Data(m).lists)
            /\ Len(Data(m).lists') = Len(Data(m).lists) + 1
            /\ \A k \in Keys(Data(m).lists) :
                  /\ k \in Keys(Data(m).lists')
                  /\ Get(Data(m).lists', k) = Get(Data(m).lists, k)]_vars

C9_SetCurrent ==
  [][\A m \in Modes :
       (last'.op = "set_current_list_id" /\ last'.mode = m)
         => /\ last'.ret = None
            /\ IF last'.list_id \in Keys(Data(m).lists)
               THEN Data(m).current_list_id' = last'.list_id
               ELSE /\ UNCHANGED <<todo_data, shopping_data, client_storage>>
                    /\ writes' = <<>>]_vars

\* _set_current_list_id was called with an id the domain does not hold
C9_Witness ==
  /\ last.op = "set_current_list_id"
  /\ last.list_id \notin Keys(Data(last.mode).lists)
  /\ Data(last.mode).current_list_id # last.list_id

\* C10: add_task of a name that is empty or all whitespace returns None,
\* changes neither collection nor the learned suggestions and writes
\* nothing to the client storage
C10_BlankNameIgnored ==
  [][(last'.op = "add_task" /\ ~NonBlank(last'.task_name))
       => /\ last'.ret = None
          /\ UNCHANGED <<todo_data, shopping_data, user_suggestions_data,
                         client_storage>>
          /\ writes' = <<>>]_vars

\* add_task was called in shopping mode with a name of whitespace only
C10_Witness ==
  /\ last.op = "add_task"
  /\ last.mode = "shopping"
  /\ Len(last.task_name) > 0
  /\ ~NonBlank(last.task_name)

\* C11: an add_task that returns None for a name that is not blank, the
\* duplicate rejection, leaves both collections and the learned suggestions
\* as they were and writes nothing, in shopping mode as well, where
\* learn_suggestion runs before the duplicate check
C11_DuplicateRejectedNoMutation ==
  [][(/\ last'.op = "add_task"
      /\ last'.ret = None
      /\ NonBlank(last'.task_name))
       => /\ UNCHANGED <<todo_data, shopping_data, user_suggestions_data,
                         client_storage>>
          /\ writes' = <<>>]_vars

\* add_task was refused in shopping mode for a name long enough to be
\* learned, which the learned list holds
C11_Witness ==
  /\ last.op = "add_task"
  /\ last.mode = "shopping"
  /\ last.ret = None
  /\ NonBlank(last.task_name)
  /\ \E i \in 1..Len(user_suggestions_data) :
        lower(user_suggestions_data[i]) = lower(strip(last.task_name))

\* C12: when add_task(N) has returned an item in a domain and the next call
\* is update_task_status(N, c) in that domain with the same argument N, the
\* item just added carries the completion flag c afterwards
C12_UpdateAfterAdd ==
  [][\A m \in Modes, c \in BOOLEAN :
       (/\ last.op = "add_task"
        /\ last.mode = m
        /\ last.ret # None
        /\ last'.op = "update_task_status"
        /\ update_task_status(last.task_name, c, m))
         => \E i \in 1..Len(GetTasks(m)') :
               /\ GetTasks(m)'[i].name = last.ret[1].name
               /\ GetTasks(m)'[i].is_completed = c]_vars

\* the lists of domain m other than its current list, and its
\* current_list_id, are the same before and after the step
OtherListsUnchanged(m) ==
  /\ Data(m).current_list_id' = Data(m).current_list_id
  /\ Keys(Data(m).lists') = Keys(Data(m).lists)
  /\ \A k \in Keys(Data(m).lists) \ {Data(m).current_list_id} :
        Get(Data(m).lists', k) = Get(Data(m).lists, k)

\* C13: update_task_status(name, c) on a domain whose current list exists
\* sets the flag of the first item of the current list whose name equals
\* name exactly, leaves every other flag, every name, every priority, the
\* order and every other list as they were, changes no item when none
\* matches, and in both cases writes the domain to the client storage
C13_UpdateFirstExact ==
  [][\A m \in Modes, n \in StoredNames(ListTaskNames), c \in BOOLEAN :
       (/\ last'.op = "update_task_status"
        /\ last'.mode = m
        /\ Data(m).current_list_id \in Keys(Data(m).lists)
        /\ update_task_status(n, c, m))
         => /\ raised' = None
            /\ Len(GetTasks(m)') = Len(GetTasks(m))
            /\ \A i \in 1..Len(GetTasks(m)) :
                  /\ GetTasks(m)'[i].name = GetTasks(m)[i].name
                  /\ GetTasks(m)'[i].priority = GetTasks(m)[i].priority
                  /\ GetTasks(m)'[i].is_completed =
                       IF /\ GetTasks(m)[i].name = n
                          /\ \A j \in 1..(i - 1) : GetTasks(m)[j].name # n
                       THEN c ELSE GetTasks(m)[i].is_completed
            /\ OtherListsUnchanged(m)
            /\ KeyOf(m) \in Range(writes')
            /\ Stored(m)' = Data(m)']_vars

\* update_task_status has returned and the current list holds a name twice,
\* the first with another flag than the second, and the name in another
\* letter case
C13_Witness ==
  /\ last.op = "update_task_status"
  /\ raised = None
  /\ \E i, j, k \in 1..Len(GetTasks(last.mode)) :
        /\ i < j
        /\ GetTasks(last.mode)[i].name = GetTasks(last.mode)[j].name
        /\ GetTasks(last.mode)[i].is_completed
             # GetTasks(last.mode)[j].is_completed
        /\ GetTasks(last.mode)[k].name # GetTasks(last.mode)[i].name
        /\ lower(GetTasks(last.mode)[k].name)
             = lower(GetTasks(last.mode)[i].name)

\* C14: delete_task(name) on a domain whose current list exists leaves in
\* the current list exactly the items whose name differs from name as
\* written, each at the position its rank among them gives it, leaves the
\* other lists as they were and writes the domain to the client storage
\* whether or not an item was removed
C14_DeleteExact ==
  [][\A m \in Modes, n \in StoredNames(ListTaskNames) :
       (/\ last'.op = "delete_task"
        /\ last'.mode = m
        /\ Data(m).current_list_id \in Keys(Data(m).lists)
        /\ delete_task(n, m))
         => LET kept == {i \in 1..Len(GetTasks(m)) : GetTasks(m)[i].name # n}
            IN /\ raised' = None
               /\ Len(GetTasks(m)') = Cardinality(kept)
               /\ \A i \in kept :
                     GetTasks(m)'[Cardinality({j \in kept : j <= i})]
                       = GetTasks(m)[i]
               /\ OtherListsUnchanged(m)
               /\ KeyOf(m) \in Range(writes')
               /\ Stored(m)' = Data(m)']_vars

\* delete_task has returned on the stored list that held a name twice and
\* once in another letter case: that one item is what is left
C14_Witness ==
  /\ last.op = "delete_task"
  /\ raised = None
  /\ Len(Data(last.mode).lists) = 2
  /\ GetTasks(last.mode) = << StoredItem(<<"A">>, FALSE) >>
  /\ writes = <<KeyOf(last.mode)>>

\* add_task(n) would be refused in domain m as a duplicate of the item at
\* position i of the current list
RejectedAsDuplicateOf(m, n, i) ==
  /\ NonBlank(n)
  /\ i \in 1..Len(GetTasks(m))
  /\ IsDuplicate(<<GetTasks(m)[i]>>,
                 Normalize(strip(n), user_suggestions_data))

\* C15: whenever add_task(n) would be refused as a duplicate of an item X
\* of the current list, delete_task(n) removes X and
\* update_task_status(n, c) sets the completion flag of X to c
C15_CaseInsensitiveIdentity ==
  [][\A m \in Modes, n \in StoredNames(TaskNames) :
       /\ (/\ last'.op = "delete_task"
           /\ last'.mode = m
           /\ delete_task(n, m))
            => \A i \in 1..Len(GetTasks(m)) :
                  RejectedAsDuplicateOf(m, n, i)
                    => \A k \in 1..Len(GetTasks(m)') :
                          GetTasks(m)'[k].name # GetTasks(m)[i].name
       /\ \A c \in BOOLEAN :
            (/\ last'.op = "update_task_status"
             /\ last'.mode = m
             /\ update_task_status(n, c, m))
              => \A i \in 1..Len(GetTasks(m)) :
                    RejectedAsDuplicateOf(m, n, i)
                      => GetTasks(m)'[i].is_completed = c]_vars

\* C16: clear_completed_tasks leaves in the current list of the domain
\* exactly the items that are not completed, each at the position its rank
\* among them gives it, and leaves every other list of the domain and the
\* other domain as they were
C16_ClearCompleted ==
  [][\A m \in Modes :
       (/\ last'.op = "clear_completed_tasks"
        /\ last'.mode = m)
         => LET kept == {i \in 1..Len(GetTasks(m)) :
                           ~GetTasks(m)[i].is_completed}
            IN /\ raised' = None
               /\ Len(GetTasks(m)') = Cardinality(kept)
               /\ \A i \in kept :
                     GetTasks(m)'[Cardinality({j \in kept : j <= i})]
                       = GetTasks(m)[i]
               /\ OtherListsUnchanged(m)
               /\ \A o \in Modes \ {m} : Data(o)' = Data(o)]_vars

\* clear_completed_tasks has returned, the current list holds two items
\* that are not completed, in the order they were stored in, and another
\* list of the domain still holds a completed item
C16_Witness ==
  /\ last.op = "clear_completed_tasks"
  /\ Len(GetTasks(last.mode)) = 2
  /\ GetTasks(last.mode)[1].name = <<"a">>
  /\ GetTasks(last.mode)[2].name = <<"A">>
  /\ \A i \in 1..2 : ~GetTasks(last.mode)[i].is_completed
  /\ \E k \in 1..Len(Data(last.mode).lists) :
        /\ Data(last.mode).lists[k].id # Data(last.mode).current_list_id
        /\ \E i \in 1..Len(Data(last.mode).lists[k].items) :
              Data(last.mode).lists[k].items[i].is_completed

\* C17: whenever the last operation has returned, the records the client
\* storage holds under the three keys equal todo_data, shopping_data and
\* user_suggestions_data
C17_WriteThrough ==
  raised = None
    => /\ client_storage.todo = todo_data
       /\ client_storage.shopping = shopping_data
       /\ client_storage.suggestions = user_suggestions_data

\* add_task in shopping mode has learned the name and appended the item:
\* it wrote the suggestions and then the shopping data
C17_Witness ==
  /\ last.op = "add_task"
  /\ last.ret # None
  /\ raised = None
  /\ writes = <<SUGGESTIONS_KEY, SHOPPING_KEY>>
  /\ user_suggestions_data # <<>>
  /\ Len(shopping_data.lists) = 2

\* the record storage holds under key
StoredUnder(storage, key) ==
  IF key = TODO_KEY THEN storage.todo
  ELSE IF key = SHOPPING_KEY THEN storage.shopping
  ELSE storage.suggestions

\* C18: an operation that changes a collection or the learned suggestions
\* while its first client_storage.set raises is left by that exception,
\* and whenever an operation is left by the exception of a set call, the
\* record stored under that call's key is the one stored before the
\* operation
C18_FailedWritePropagates ==
  [][(failing # 0 /\ failing' = 0)
       => /\ (/\ failing = 1
              /\ <<todo_data, shopping_data, user_suggestions_data>>'
                   # <<todo_data, shopping_data, user_suggestions_data>>)
               => (raised' # None /\ raised'[1] = "StorageError")
          /\ (raised' # None /\ raised'[1] = "StorageError")
               => StoredUnder(client_storage', raised'[2])
                    = StoredUnder(client_storage, raised'[2])]_vars

\* C19: each of these operations returns its sentinel exactly when it
\* changes nothing: add_task returns None exactly for a blank or duplicate
\* name, _delete_list returns False exactly for the default, the last or an
\* unknown list, _set_current_list_id and _rename_list return None exactly
\* for an unknown id, update_task_status and delete_task return None
\* exactly when no item of the current list has the name
C19_NoOpsDistinguishable ==
  [][\A m \in Modes :
       /\ (last'.op = "add_task" /\ last'.mode = m)
            => (last'.ret = None
                  <=> \/ ~NonBlank(last'.task_name)
                      \/ IsDuplicate(GetTasks(m),
                                     Normalize(strip(last'.task_name),
                                               user_suggestions_data)))
       /\ (last'.op = "delete_list" /\ last'.mode = m)
            => (last'.ret = Some(FALSE)
                  <=> \/ last'.list_id = "default"
                      \/ Len(Data(m).lists) <= 1
                      \/ last'.list_id \notin Keys(Data(m).lists))
       /\ (last'.op \in {"set_current_list_id", "rename_list"}
             /\ last'.mode = m)
            => (last'.ret = None <=> last'.list_id \notin Keys(Data(m).lists))
       /\ \A n \in StoredNames(StoreTaskNames) :
            /\ \A c \in BOOLEAN :
                 (/\ last'.op = "update_task_status"
                  /\ last'.mode = m
                  /\ update_task_status(n, c, m))
                   => (last'.ret = None
                         <=> \A i \in 1..Len(GetTasks(m)) :
                                GetTasks(m)[i].name # n)
            /\ (/\ last'.op = "delete_task"
                /\ last'.mode = m
                /\ delete_task(n, m))
                 => (last'.ret = None
                       <=> \A i \in 1..Len(GetTasks(m)) :
                              GetTasks(m)[i].name # n)]_vars

\* C20: on a store started from any stored records, also when a domain's
\* current_list_id is no key of its lists, no operation is left by an
\* exception, and get_tasks returns the empty sequence when the current
\* list is missing
C20_NotFoundNeverRaises ==
  [][/\ raised' = None
     /\ \A m \in Modes :
          (/\ last'.op = "get_tasks"
           /\ last'.mode = m
           /\ Data(m).current_list_id \notin Keys(Data(m).lists))
            => last'.ret = <<>>]_vars


\* C21: initialization is idempotent: when the program is started again on
\* the client storage a start has just left (a start on empty storage, on a
\* flat legacy record or on multi-list records), the second start builds the
\* same in-memory collections and learned names and leaves the persisted
\* records as they were.
C21_InitIdempotent ==
  [][(last.op = "__init__" /\ last'.op = "__init__")
       => UNCHANGED <<todo_data, shopping_data, user_suggestions_data,
                      client_storage>>]_vars

\* a second start on what a start on a flat todo record and on an empty
\* shopping key left
C21_Witness ==
  /\ last.op = "__init__"
  /\ last.todo = Some(todo_data)
  /\ todo_data = Migrate(StoredFlat)
  /\ last.shopping = Some(shopping_data)
  /\ shopping_data = NormalizeShoppingName(DEFAULT_SHOPPING_DATA)
  /\ writes = <<>>


\* C22: after a start, in the todo and in the shopping domain alike, the
\* collection in memory and the record in the client storage name their
\* "default" list "Allgemein", whatever name the stored record carried.
C22_DefaultNameForced ==
  last.op = "__init__" =>
    \A m \in Modes :
      /\ "default" \in Keys(Data(m).lists)
           => Get(Data(m).lists, "default").name = "Allgemein"
      /\ "default" \in Keys(Stored(m).lists)
           => Get(Stored(m).lists, "default").name = "Allgemein"


\* the collection a start found for a domain: the stored record, else the
\* legacy file's, else the default
StartFound(m) ==
  IF m = "shopping"
  THEN ImportStage(last.shopping, last.shopping_file,
                   DEFAULT_SHOPPING_DATA).data
  ELSE ImportStage(last.todo, last.todo_file, DEFAULT_TODO_DATA).data

\* C23: a start that finds a collection without a "lists" field converts it
\* without failing: current_list_id is "default", the only list is "default"
\* and holds exactly the legacy "tasks" in their order (no items when the
\* field is absent), "tasks" is gone, every other field is kept, and the
\* result is saved.
C23_StructuralMigration ==
  last.op = "__init__" =>
    \A m \in Modes :
      LET found == StartFound(m)
          data == Data(m)
      IN "lists" \notin DOMAIN found =>
           /\ raised = None
           /\ data.current_list_id = "default"
           /\ Len(data.lists) = 1
           /\ data.lists[1].id = "default"
           /\ data.lists[1].items =
                IF "tasks" \in DOMAIN found THEN found.tasks ELSE <<>>
           /\ "tasks" \notin DOMAIN data
           /\ \A f \in DOMAIN found \ {"tasks", "current_list_id", "lists"} :
                 f \in DOMAIN data /\ data[f] = found[f]
           /\ Stored(m) = data
           /\ KeyOf(m) \in Range(writes)

\* a start on a flat todo record with settings and no tasks, and on a flat
\* shopping record with tasks read from the legacy file
C23_Witness ==
  /\ last.op = "__init__"
  /\ last.todo = Some(StoredFlatSettings)
  /\ last.shopping = None
  /\ last.shopping_file = Some(StoredFlat)
  /\ todo_data.settings = StoredFlatSettings.settings
  /\ shopping_data.lists[1].items = StoredFlat.tasks


\* the name is in the static or in the learned list, ignoring case
KnownSuggestion(name, learned) ==
  \E i \in 1..Len(SUGGESTIONS \o learned) :
     lower((SUGGESTIONS \o learned)[i]) = lower(name)

\* C24: learn_suggestion(name) changes nothing and writes nothing when name
\* is empty, shorter than two characters or equal ignoring case to a static
\* or learned entry; otherwise it adds exactly name to the learned list,
\* leaves the list sorted and saves it.  A second call with a name equal
\* ignoring case to that of the call before changes nothing, so learning
\* "ab" and then "AB" leaves one variant.
C24_Learn ==
  [][\A n \in LearnNames :
       learn(n) =>
         LET old == user_suggestions_data
             new == user_suggestions_data'
         IN /\ (Len(n) < 2 \/ KnownSuggestion(n, old))
                 => /\ new = old
                    /\ writes' = <<>>
                    /\ client_storage' = client_storage
            /\ ~(Len(n) < 2 \/ KnownSuggestion(n, old))
                 => /\ Len(new) = Len(old) + 1
                    /\ Range(new) = Range(old) \cup {n}
                    /\ \A i, j \in 1..Len(new) :
                          i < j => ~StrLess(new[j], new[i])
                    /\ writes' = <<SUGGESTIONS_KEY>>
                    /\ client_storage'.suggestions = new
            /\ (last.op = "learn_suggestion"
                  /\ lower(last.item_name) = lower(n))
                 => new = old
            /\ UNCHANGED <<todo_data, shopping_data>>]_vars

\* "ba" and "ab" were learned in this order, and then "AB" was passed
C24_Witness ==
  /\ last.op = "learn_suggestion"
  /\ last.item_name = <<"A", "B">>
  /\ user_suggestions_data = << <<"a", "b">>, <<"b", "a">> >>
  /\ client_storage.suggestions = user_suggestions_data


\* C25: get_all_suggestions() returns the static and the learned names
\* deduplicated ignoring case: whatever learned list was loaded from the
\* storage, no two entries of the result are equal ignoring case.
C25_NoCaseVariants ==
  last.op = "get_all_suggestions" =>
    \A i, j \in 1..Len(last.ret[1]) :
       lower(last.ret[1][i]) = lower(last.ret[1][j]) => i = j


\* the name add_task is said to store: the first entry equal to the trimmed
\* name ignoring case, the static list searched before the learned list in
\* its sorted order, else the trimmed name
FirstStaticThenLearned(task_name, learned) ==
  LET encounter == SUGGESTIONS \o sorted(learned)
      hits == {i \in 1..Len(encounter) :
                 lower(encounter[i]) = lower(strip(task_name))}
  IN IF hits = {} THEN strip(task_name)
     ELSE encounter[CHOOSE i \in hits : \A j \in hits : i <= j]

\* C26: the item add_task stores is named by the matching suggestion's
\* casing, else by the trimmed input; among several entries equal ignoring
\* case the first one in encounter order wins, the static list coming
\* before the learned list.
C26_StaticCasingWins ==
  [][\A m \in Modes, n \in SuggestTaskNames :
       (add_task(n, "medium", FALSE, m) /\ last'.ret # None)
         => last'.ret[1].name =
              FirstStaticThenLearned(n, user_suggestions_data)]_vars


\* C27: in shopping mode add_task hands the canonicalised name to
\* learn_suggestion before the duplicate check, so the learned list and the
\* stored list are those learn_suggestion leaves whether the call returns an
\* item or None; in todo mode, and for a blank name, add_task leaves the
\* learned list and its stored copy as they are and does not write them.
C27_LearnBeforeDuplicateCheck ==
  [][\A m \in Modes, n \in SuggestTaskNames :
       add_task(n, "medium", FALSE, m) =>
         LET old == user_suggestions_data
             canonical == Normalize(strip(n), old)
         IN IF m = "shopping" /\ strip(n) # <<>>
            THEN /\ user_suggestions_data' = learn_suggestion(canonical, old)
                 /\ client_storage'.suggestions = user_suggestions_data'
                 /\ (user_suggestions_data' # old
                       => /\ writes' # <<>>
                          /\ writes'[1] = SUGGESTIONS_KEY)
            ELSE /\ user_suggestions_data' = old
                 /\ client_storage'.suggestions = client_storage.suggestions
                 /\ SUGGESTIONS_KEY \notin Range(writes')]_vars

\* a shopping add_task was refused as a duplicate of a stored item, and its
\* name was learned by that call
C27_Witness ==
  /\ last.op = "add_task"
  /\ last.mode = "shopping"
  /\ last.ret = None
  /\ last.task_name = <<"B", "A">>
  /\ writes = <<SUGGESTIONS_KEY>>
  /\ <<"B", "A">> \in Range(user_suggestions_data)


\* C28: in every state after a start, also when the todo collection was
\* migrated from a flat record without settings, update_setting(key, value)
\* returns without raising, get_settings()[key] is value afterwards, the
\* todo record is saved at once, and the lists and current_list_id of both
\* domains are unchanged.
C28_UpdateSetting ==
  [][\A key \in SettingKeys, value \in SettingValues :
       update_setting(key, value) =>
         /\ raised' = None
         /\ key \in DOMAIN GetSettings'
         /\ GetSettings'[key] = value
         /\ writes' = <<TODO_KEY>>
         /\ client_storage'.todo = todo_data'
         /\ todo_data'.lists = todo_data.lists
         /\ todo_data'.current_list_id = todo_data.current_list_id
         /\ shopping_data' = shopping_data]_vars


\* the operations on the items of the current list
ItemOpNames ==
  {"add_task", "update_task_status", "delete_task", "clear_tasks",
   "clear_completed_tasks", "clear_shopping_cart"}

\* C29: an operation called for one domain leaves the collection of the
\* other domain as it is, and an item operation (add_task,
\* update_task_status, delete_task, clear_tasks, clear_completed_tasks,
\* clear_shopping_cart) leaves every list of its domain other than the
\* current one, the current_list_id and all list names as they are.
C29_Frame ==
  [][\A m \in Modes :
       last'.mode = m =>
         /\ \A o \in Modes \ {m} : Data(o)' = Data(o)
         /\ last'.op \in ItemOpNames =>
              /\ OtherListsUnchanged(m)
              /\ Len(Data(m).lists') = Len(Data(m).lists)
              /\ \A i \in 1..Len(Data(m).lists) :
                    /\ Data(m).lists'[i].id = Data(m).lists[i].id
                    /\ Data(m).lists'[i].name = Data(m).lists[i].name]_vars

\* an item was added to the current list of the shopping domain while
\* another shopping list holds an item
C29_Witness ==
  /\ last.op = "add_task"
  /\ last.mode = "shopping"
  /\ last.ret # None
  /\ shopping_data.current_list_id # "default"
  /\ Get(shopping_data.lists, "default").items # <<>>


\* C30: after an operation one of whose client_storage.set calls raised,
\* each collection in memory equals the record the client storage holds for
\* it, the last one saved: the change is not visible to later reads.
C30_AllOrNothing ==
  (Len(raised) = 2 /\ raised[1] = "StorageError")
    => /\ todo_data = client_storage.todo
       /\ shopping_data = client_storage.shopping

====
